---- MODULE Spec2Model ----
(***************************************************************************)
(* A model of Pangloss's Reconstruct.py (the command-line function and the *)
(* module-level calibration / reconstruction pipeline) and of the galaxy   *)
(* selection of pangloss.ForegroundCatalog.                                *)
(*                                                                         *)
(* Reconstruct.py reads many names it never binds.  A name that the script *)
(* reads and never assigns is bound, or not, by the environment the script *)
(* runs in (the empty "read in the survey parameterfile" block of lines    *)
(* 104-119): the variable env records which of them are bound, and a read  *)
(* of an unbound name raises NameError, which ends the script.             *)
(* A possibly-unbound name is modelled as a set: {} is "unbound" and {v}   *)
(* is "bound to v".                                                        *)
(*                                                                         *)
(* Weights are integers in units of the calibration width (0.01); medians  *)
(* are kept doubled so that the mean of two middle values stays integral.  *)
(***************************************************************************)
EXTENDS Integers, Sequences, FiniteSets, TLC

\* The most lightcone files a glob returns, and the number MakeCones makes.
MaxCones == 2
\* The largest realisation count (the script's 100, scaled down).
MaxRealisations == 2
\* The most command-line words.
MaxArgs == 2
\* The most galaxies in a foreground catalogue.
MaxGalaxies == 2

VARIABLES
    pc,          \* the line the script is about to execute
    env,         \* bindings of the names the script never assigns
    params,      \* the survey parameters and the values of the script's literals
    cli,         \* how the call Reconstruct(sys.argv[1:]) of line 93 returned
    CreateNewCalibrationLightcones,  \* script global (line 123)
    CreateNewCalibration,            \* script global (line 155)
    Nrealisations,                   \* script global (line 142)
    Conelist,    \* script global (lines 157, 195)
    iter,        \* the next value of the running for loop's range
    i,           \* script global: the loop variable
    ConeResult,  \* script global (lines 163, 169, 199)
    Value,       \* script global (line 209), doubled
    Result,      \* script global (lines 212, 215)
    SHMR_S2H,    \* script global (line 147)
    SHMR_H2S,    \* script global (line 148)
    Grid,        \* script global (line 151)
    constructions, \* how often lines 145-151 have built the shared objects
    reconstructs,  \* the reconstructor calls made, with what they were given
    calls,       \* the CalibrateResult calls made, with what they returned
    madeCones,   \* the calibration lightcone files MakeCones wrote
    calibrationcones, \* the lightcone files that matched calibrationcones
    realcones,   \* the lightcone files that match the realcones pattern
    files,       \* the pickled result records on disk: path -> content
    writes,      \* the paths opened "wb" and dumped to, in order
    opened,      \* the paths open(path,"wb") has created, dumped to or not
    calibration, \* the calibration guide on disk, built by Make*Calibration
    build,       \* how the build step of lines 179-183 ended
    stages,      \* the pipeline stages entered, in order
    error,       \* the uncaught exception that ended the script, if any
    data,        \* ForegroundCatalog.data: the rows of the catalogue
    cutoffs,     \* the arguments of the last findGalaxies / returnGalaxies call
    found,       \* what the last findGalaxies call returned
    returned     \* what the last returnGalaxies call returned

vars == <<pc, env, params, cli, CreateNewCalibrationLightcones,
          CreateNewCalibration, Nrealisations, Conelist, iter, i, ConeResult,
          Value, Result, madeCones, calibrationcones, realcones, files, writes,
          opened, calibration,
          build, stages, error, data, cutoffs, found, returned, SHMR_S2H,
          SHMR_H2S, Grid, constructions, reconstructs, calls>>

\* The objects every reconstruction shares, and the record of the calls.
shared == <<SHMR_S2H, SHMR_H2S, Grid, constructions>>
log == <<reconstructs, calls>>

\* The script and the catalogue class do not touch each other's state.
catalog == <<data, cutoffs, found, returned>>

-----------------------------------------------------------------------------
(* Bindings *)

Bound(b) == b # {}
Val(b) == CHOOSE v \in b : TRUE

RECURSIVE SeqsUpTo(_, _)
SeqsUpTo(S, n) ==
    IF n = 0 THEN {<<>>}
    ELSE LET shorter == SeqsUpTo(S, n - 1)
         IN  shorter \cup {Append(s, x) : s \in shorter, x \in S}

SeqsOfLen(S, n) == {s \in SeqsUpTo(S, n) : Len(s) = n}

-----------------------------------------------------------------------------
(* Lightcones and the collaborators of the pipeline *)

\* The weight statistic a lightcone's catalogue gives; two families of
\* sightline that lie further apart than the calibration kernel reaches.
BaseWeights == {0, 10}

\* A lightcone file: ok is FALSE for a catalogue that cannot be reconstructed
\* (empty, or a stellar mass outside the mass-relation table).
Cones == {[ok |-> FALSE, w |-> 0]} \cup {[ok |-> TRUE, w |-> x] : x \in BaseWeights}

\* glob.glob(pattern): the files that match, in the order the directory gives.
ConeLists == SeqsUpTo(Cones, MaxCones)

\* N of line 125: the number of calibration lightcones MakeCones writes.
N == MaxCones

\* The literal of line 142.
NrealisationsLiteral == MaxRealisations

\* width=0.01 of lines 212 and 215, in weight units.
width == 1

\* The kernel weight is negligible beyond this many widths.
NegligibleSigmas == 3

\* Realisation k of a lightcone: the catalogue's weight plus the scatter of
\* the draw.
Draw(cone, k) == cone.w + ((k - 1) % 2)

\* LineOfSightReconstructor.reconstruct: nRealisations draws, or an error.
ReconstructorFails(cone, nRealisations) ==
    IF nRealisations <= 0 THEN "ConfigurationError"
    ELSE IF ~cone.ok THEN "DataError"
    ELSE "none"

Reconstructor(cone, nRealisations) ==
    [col3 |-> [k \in 1..nRealisations |-> Draw(cone, k)]]

\* WeightingScheme(Cone, surveyparams): one deterministic weight per cone.
WeightingSchemeFails(cone) == IF ~cone.ok THEN "DataError" ELSE "none"
WeightingSchemeResult(cone) == [col3 |-> <<cone.w>>]

\* numpy.median, doubled.
Median2(s) ==
    LET t == SortSeq(s, <)
        n == Len(s)
    IN  IF n % 2 = 1 THEN 2 * t[(n + 1) \div 2]
        ELSE t[n \div 2] + t[n \div 2 + 1]

-----------------------------------------------------------------------------
(* Result records on disk *)

CalibrationResultsDirectory == "CalibrationResults"
RealResultsDirectory == "RealResults"
surveyname == "survey"

\* "%s/cone%i_%s.<ext>" % (directory, i, surveyname)
Path(directory, index, name, ext) ==
    [dir |-> directory, cone |-> index, survey |-> name, ext |-> ext]

\* The write of open(path,"wb"); cPickle.dump(content, OUTPUT, 2); close().
Dump(path, content) ==
    /\ files' = (path :> content) @@ files
    /\ writes' = Append(writes, path)
    /\ opened' = opened \cup {path}

\* The .result records of a directory, the input of the calibration builders.
ResultRecords(directory, name) ==
    {p \in DOMAIN files : p.dir = directory /\ p.survey = name /\ p.ext = "result"}

RECURSIVE Concatenate(_, _)
Concatenate(paths, k) ==
    IF k < 0 THEN <<>>
    ELSE LET here == {p \in paths : p.cone = k}
             rest == Concatenate(paths, k - 1)
         IN  IF here = {} THEN rest
             ELSE rest \o [r \in 1..Len(files[Val(here)].col3) |->
                             [cone |-> k, weight |-> files[Val(here)].col3[r]]]

\* MakeReconstructionCalibration / MakeWeightCalibration(directory, surveyname):
\* CalibrationSetBuilder.build over the result records of the directory; an
\* empty set of records is an error.
BuilderFails(directory, name) ==
    IF ResultRecords(directory, name) = {} THEN "DataError" ELSE "none"

Builder(directory, name) ==
    Concatenate(ResultRecords(directory, name), MaxCones)

\* CalibrateResult(directory, surveyname, Value, width, magnification): the
\* calibration entries whose kernel weight around Value is not negligible;
\* none (or no calibration on disk) is an error.
Matches(guide, value2, w) ==
    SelectSeq(guide, LAMBDA e :
        /\ 2 * e.weight - value2 <= 2 * NegligibleSigmas * w
        /\ value2 - 2 * e.weight <= 2 * NegligibleSigmas * w)

CalibrateResultFails(guide, value2, w) ==
    IF ~Bound(guide) THEN "IOError"
    ELSE IF Matches(Val(guide), value2, w) = <<>> THEN "DegenerateCalibration"
    ELSE "none"

CalibrateResult(guide, value2, w, magnification) ==
    [rows |-> Matches(Val(guide), value2, w),
     value |-> value2, magnification |-> magnification]

\* A calibration guide a previous run left on disk.
PreviousCalibration == <<[cone |-> 0, weight |-> 0]>>

-----------------------------------------------------------------------------
(* The command line: Reconstruct(argv), lines 13-88 *)

Words == {"-h", "--help", "-x", "survey.config"}
Argvs == SeqsUpTo(Words, MaxArgs)

IsOption(word) == word \in {"-h", "--help", "-x"}

\* getopt.getopt(argv, "h", ["help"]): options are read up to the first word
\* that is not one; an option other than -h / --help raises GetoptError.
RECURSIVE getopt(_)
getopt(argv) ==
    IF argv = <<>> THEN [err |-> FALSE, opts |-> <<>>, args |-> <<>>]
    ELSE IF ~IsOption(Head(argv)) THEN [err |-> FALSE, opts |-> <<>>, args |-> argv]
    ELSE IF Head(argv) \notin {"-h", "--help"}
         THEN [err |-> TRUE, opts |-> <<>>, args |-> <<>>]
    ELSE LET rest == getopt(Tail(argv))
         IN  [err |-> rest.err, opts |-> <<Head(argv)>> \o rest.opts, args |-> rest.args]

\* How Reconstruct(argv) returns: every path of the function is a return.
ReconstructArgv(argv) ==
    LET parsed == getopt(argv)
    IN  IF parsed.err THEN "GetoptError"
        ELSE IF parsed.opts # <<>>
             THEN IF Head(parsed.opts) \in {"-h", "--help"} THEN "help"
                  ELSE "AssertionError"
        ELSE IF Len(parsed.args) = 1 THEN "configfile"
        ELSE "usage"

-----------------------------------------------------------------------------
(* The pipeline script *)

Stages == {"Idle", "GeneratingCalibrationCones", "ReconstructingCalibration",
           "BuildingCalibrationSet", "ReconstructingReal", "Calibrating", "Done"}

Enter(stage) ==
    IF stages[Len(stages)] = stage THEN stages ELSE Append(stages, stage)

Envs ==
    [sys : BOOLEAN,
     CreateNewCalibrationLightones : {{}, {TRUE}, {FALSE}},
     Nrealisation : {{}} \cup {{n} : n \in 0..MaxRealisations},
     Reconstruct : {"Reconstruct(argv)", "reconstructor"},
     WeightingScheme : BOOLEAN]

Params ==
    [DoReconstruction : BOOLEAN,
     WeightParameter1 : {"kappa", "mu", "other"},
     line123 : BOOLEAN,
     line155 : BOOLEAN]

Init ==
    /\ pc = "L93"
    /\ env \in Envs
    /\ params \in Params
    /\ cli = "pending"
    /\ CreateNewCalibrationLightcones = {}
    /\ CreateNewCalibration = {}
    /\ Nrealisations = {}
    /\ Conelist = <<>>
    /\ iter = 0
    /\ i = {}
    /\ ConeResult = {}
    /\ Value = {}
    /\ Result = {}
    /\ madeCones = {}
    /\ calibrationcones = {}
    /\ realcones = {}
    /\ files = <<>>
    /\ writes = <<>>
    /\ opened = {}
    /\ calibration \in {{}, {PreviousCalibration}}
    /\ build = "none"
    /\ stages = <<"Idle">>
    /\ error = [type |-> "none", line |-> 0]
    /\ data = <<>>
    /\ cutoffs = {}
    /\ found = {}
    /\ returned = {}
    /\ SHMR_S2H = {}
    /\ SHMR_H2S = {}
    /\ Grid = {}
    /\ constructions = 0
    /\ reconstructs = <<>>
    /\ calls = <<>>

script == <<CreateNewCalibrationLightcones, CreateNewCalibration, Nrealisations,
            Conelist, iter, i, ConeResult, Value, Result>>
disk == <<madeCones, calibrationcones, realcones, files, writes, opened,
          calibration, build>>

\* An uncaught exception ends the script where it is raised.
Raise(exception, line) ==
    /\ pc' = "crashed"
    /\ error' = [type |-> exception, line |-> line]
    /\ UNCHANGED catalog

Goto(label) ==
    /\ pc' = label
    /\ UNCHANGED <<error, catalog>>

\* Line 93: sys is a name the script never imports.
L93_NameError ==
    /\ pc = "L93"
    /\ ~env.sys
    /\ Raise("NameError", 93)
    /\ UNCHANGED <<env, params, cli, script, disk, stages>>
    /\ UNCHANGED <<shared, log>>

\* Lines 92-93: Reconstruct(sys.argv[1:]) returns, whatever argv holds, and
\* the script goes on with the lines below it.
L93_Reconstruct ==
    /\ pc = "L93"
    /\ env.sys
    /\ \E argv \in Argvs :
         /\ cli' = ReconstructArgv(argv)
         /\ IF cli' = "AssertionError"
            THEN Raise("AssertionError", 74)
            ELSE Goto("L123")
    /\ UNCHANGED <<env, params, script, disk, stages>>
    /\ UNCHANGED <<shared, log>>

\* Lines 123-126.
L123_Assign ==
    /\ pc = "L123"
    /\ CreateNewCalibrationLightcones' = {params.line123}
    /\ Goto("L128")
    /\ UNCHANGED <<env, params, cli, CreateNewCalibration, Nrealisations,
                   Conelist, iter, i, ConeResult, Value, Result, disk, stages>>
    /\ UNCHANGED <<shared, log>>

\* Line 128 reads CreateNewCalibrationLightones.
L128_NameError ==
    /\ pc = "L128"
    /\ ~Bound(env.CreateNewCalibrationLightones)
    /\ Raise("NameError", 128)
    /\ UNCHANGED <<env, params, cli, script, disk, stages>>
    /\ UNCHANGED <<shared, log>>

\* Lines 128-129: MakeCones writes N calibration lightcones.
L129_MakeCones ==
    /\ pc = "L128"
    /\ env.CreateNewCalibrationLightones = {TRUE}
    /\ \E cones \in SeqsOfLen(Cones, N) : madeCones' = {cones}
    /\ stages' = Enter("GeneratingCalibrationCones")
    /\ Goto("L135")
    /\ UNCHANGED <<env, params, cli, script, calibrationcones, realcones,
                   files, writes, opened, calibration, build>>
    /\ UNCHANGED <<shared, log>>

L128_Skip ==
    /\ pc = "L128"
    /\ env.CreateNewCalibrationLightones = {FALSE}
    /\ Goto("L135")
    /\ UNCHANGED <<env, params, cli, script, disk, stages>>
    /\ UNCHANGED <<shared, log>>

\* An object of the run: the name it was first bound to and which construction
\* made it. Two constructions never give the same object.
Object(name, construction) == [name |-> name, construction |-> construction]

\* Lines 135-151: the objects used by every reconstruction.
L135_Setup ==
    /\ pc = "L135"
    /\ params.DoReconstruction
    /\ Nrealisations' = {NrealisationsLiteral}
    /\ constructions' = constructions + 1
    /\ SHMR_S2H' = {Object("SHMR_S2H", constructions + 1)}
    /\ SHMR_H2S' = {Object("SHMR_H2S", constructions + 1)}
    /\ Grid' = {Object("Grid", constructions + 1)}
    /\ Goto("L155")
    /\ UNCHANGED <<env, params, cli, CreateNewCalibrationLightcones,
                   CreateNewCalibration, Conelist, iter, i, ConeResult, Value,
                   Result, disk, stages, log>>

L135_Skip ==
    /\ pc = "L135"
    /\ ~params.DoReconstruction
    /\ Goto("L155")
    /\ UNCHANGED <<env, params, cli, script, disk, stages>>
    /\ UNCHANGED <<shared, log>>

\* Line 155.
L155_Assign ==
    /\ pc = "L155"
    /\ CreateNewCalibration' = {params.line155}
    /\ Goto("L156")
    /\ UNCHANGED <<env, params, cli, CreateNewCalibrationLightcones,
                   Nrealisations, Conelist, iter, i, ConeResult, Value, Result,
                   disk, stages>>
    /\ UNCHANGED <<shared, log>>

\* Lines 156-157: Conelist=glob.glob(calibrationcones).
L157_Glob ==
    /\ pc = "L156"
    /\ CreateNewCalibration = {TRUE}
    /\ IF Bound(madeCones)
       THEN Conelist' = Val(madeCones)
       ELSE Conelist' \in ConeLists
    /\ calibrationcones' = {Conelist'}
    /\ iter' = 0
    /\ stages' = Enter("ReconstructingCalibration")
    /\ Goto(IF params.DoReconstruction THEN "L166" ELSE "L160")
    /\ UNCHANGED <<env, params, cli, CreateNewCalibrationLightcones,
                   CreateNewCalibration, Nrealisations, i, ConeResult, Value,
                   Result, madeCones, realcones, files, writes, opened, calibration,
                   build>>
    /\ UNCHANGED <<shared, log>>

L156_Skip ==
    /\ pc = "L156"
    /\ CreateNewCalibration = {FALSE}
    /\ Goto("L179")
    /\ UNCHANGED <<env, params, cli, script, disk, stages>>
    /\ UNCHANGED <<shared, log>>

\* Lines 160-163, DoReconstruction==False: the "trivial reconstruction".  The
\* result is left in ConeResult and is not written anywhere.
L163_NameError ==
    /\ pc = "L160"
    /\ iter < Len(Conelist)
    /\ ~env.WeightingScheme
    /\ i' = {iter}
    /\ iter' = iter + 1
    /\ Raise("NameError", 163)
    /\ UNCHANGED <<env, params, cli, CreateNewCalibrationLightcones,
                   CreateNewCalibration, Nrealisations, Conelist, ConeResult,
                   Value, Result, disk, stages>>
    /\ UNCHANGED <<shared, log>>

L163_WeightingScheme ==
    /\ pc = "L160"
    /\ iter < Len(Conelist)
    /\ env.WeightingScheme
    /\ i' = {iter}
    /\ iter' = iter + 1
    /\ LET Cone == Conelist[iter + 1]
       IN  IF WeightingSchemeFails(Cone) # "none"
           THEN /\ Raise(WeightingSchemeFails(Cone), 163)
                /\ UNCHANGED ConeResult
           ELSE /\ ConeResult' = {WeightingSchemeResult(Cone)}
                /\ Goto("L160")
    /\ UNCHANGED <<env, params, cli, CreateNewCalibrationLightcones,
                   CreateNewCalibration, Nrealisations, Conelist, Value, Result,
                   disk, stages>>
    /\ UNCHANGED <<shared, log>>

L160_Exit ==
    /\ pc = "L160"
    /\ iter = Len(Conelist)
    /\ Goto("L179")
    /\ UNCHANGED <<env, params, cli, script, disk, stages>>
    /\ UNCHANGED <<shared, log>>

\* The call Reconstruct(Cone,zl,zs,Grid,SHMR_H2S,SHMR_S2H,Nrealisation,
\* truncationscale,surveyparams) of lines 169 and 199.  The arguments are
\* evaluated first (Nrealisation may be unbound), then the call is made: the
\* Reconstruct of line 13 takes one argument, and only a rebinding of the name
\* makes it the reconstructor.
ReconstructCallFails(Cone) ==
    IF ~Bound(env.Nrealisation) THEN "NameError"
    ELSE IF env.Reconstruct = "Reconstruct(argv)" THEN "TypeError"
    ELSE ReconstructorFails(Cone, Val(env.Nrealisation))

ReconstructCall(Cone) == Reconstructor(Cone, Val(env.Nrealisation))

\* The call of line 169 or 199 with the arguments the script names: the
\* lightcone, then Grid, SHMR_H2S and SHMR_S2H as they are bound at the call.
\* The reconstructor is entered unless evaluating the arguments or binding them
\* to the callee has already raised.
CallReconstruct(Cone, line, next) ==
    LET failure == ReconstructCallFails(Cone)
    IN  /\ reconstructs' =
               IF failure \in {"NameError", "TypeError"} THEN reconstructs
               ELSE Append(reconstructs,
                           [line |-> line, cone |-> iter, Grid |-> Val(Grid),
                            SHMR_H2S |-> Val(SHMR_H2S),
                            SHMR_S2H |-> Val(SHMR_S2H)])
        /\ IF failure # "none"
           THEN /\ Raise(failure, line)
                /\ UNCHANGED ConeResult
           ELSE /\ ConeResult' = {ReconstructCall(Cone)}
                /\ Goto(next)

\* Lines 166-169, DoReconstruction==True.
L169_Reconstruct ==
    /\ pc = "L166"
    /\ iter < Len(Conelist)
    /\ i' = {iter}
    /\ iter' = iter + 1
    /\ CallReconstruct(Conelist[iter + 1], 169, "L172")
    /\ UNCHANGED <<env, params, cli, CreateNewCalibrationLightcones,
                   CreateNewCalibration, Nrealisations, Conelist, Value, Result,
                   disk, stages, shared, calls>>

\* Lines 172-174.
L172_Dump ==
    /\ pc = "L172"
    /\ Dump(Path(CalibrationResultsDirectory, Val(i), surveyname, "result"),
            Val(ConeResult))
    /\ Goto("L166")
    /\ UNCHANGED <<env, params, cli, script, madeCones, calibrationcones,
                   realcones, calibration, build, stages>>
    /\ UNCHANGED <<shared, log>>

L166_Exit ==
    /\ pc = "L166"
    /\ iter = Len(Conelist)
    /\ Goto("L179")
    /\ UNCHANGED <<env, params, cli, script, disk, stages>>
    /\ UNCHANGED <<shared, log>>

\* Lines 179-183: MakeReconstructionCalibration or MakeWeightCalibration, both
\* given the results directory and the survey name.
L179_Build ==
    /\ pc = "L179"
    /\ CreateNewCalibration = {TRUE}
    /\ stages' = Enter("BuildingCalibrationSet")
    /\ IF BuilderFails(CalibrationResultsDirectory, surveyname) # "none"
       THEN /\ build' = "failed"
            /\ Raise(BuilderFails(CalibrationResultsDirectory, surveyname),
                     IF params.DoReconstruction THEN 181 ELSE 183)
            /\ UNCHANGED calibration
       ELSE /\ build' = "built"
            /\ calibration' = {Builder(CalibrationResultsDirectory, surveyname)}
            /\ Goto("L194")
    /\ UNCHANGED <<env, params, cli, script, madeCones, calibrationcones,
                   realcones, files, writes, opened>>
    /\ UNCHANGED <<shared, log>>

L179_Skip ==
    /\ pc = "L179"
    /\ CreateNewCalibration = {FALSE}
    /\ Goto("L194")
    /\ UNCHANGED <<env, params, cli, script, disk, stages>>
    /\ UNCHANGED <<shared, log>>

\* Lines 194-195: the real lines of sight are read only when DoReconstruction.
L195_Glob ==
    /\ pc = "L194"
    /\ params.DoReconstruction
    /\ \E cones \in ConeLists :
         /\ realcones' = {cones}
         /\ Conelist' = cones
    /\ iter' = 0
    /\ stages' = Enter("ReconstructingReal")
    /\ Goto("L197")
    /\ UNCHANGED <<env, params, cli, CreateNewCalibrationLightcones,
                   CreateNewCalibration, Nrealisations, i, ConeResult, Value,
                   Result, madeCones, calibrationcones, files, writes, opened,
                   calibration, build>>
    /\ UNCHANGED <<shared, log>>

\* Line 194, DoReconstruction false: nothing below it runs and the script
\* ends, whatever lightcones match realcones.
L194_Skip ==
    /\ pc = "L194"
    /\ ~params.DoReconstruction
    /\ \E cones \in ConeLists : realcones' = {cones}
    /\ stages' = Enter("Done")
    /\ Goto("Done")
    /\ UNCHANGED <<env, params, cli, script, madeCones, calibrationcones,
                   files, writes, opened, calibration, build>>
    /\ UNCHANGED <<shared, log>>

\* L199_Reconstruct with line 151 moved into the loop: the redshift grid is
\* generated anew for every real lightcone.
L199_ReconstructRebuildsGrid ==
    /\ pc = "L197"
    /\ iter < Len(Conelist)
    /\ i' = {iter}
    /\ iter' = iter + 1
    /\ stages' = Enter("ReconstructingReal")
    /\ constructions' = constructions + 1
    /\ Grid' = {Object("Grid", constructions + 1)}
    /\ CallReconstruct(Conelist[iter + 1], 199, "L201")
    /\ UNCHANGED <<env, params, cli, CreateNewCalibrationLightcones,
                   CreateNewCalibration, Nrealisations, Conelist, Value, Result,
                   disk, SHMR_S2H, SHMR_H2S, calls>>

\* Lines 197-199.
L199_Reconstruct ==
    /\ pc = "L197"
    /\ iter < Len(Conelist)
    /\ i' = {iter}
    /\ iter' = iter + 1
    /\ stages' = Enter("ReconstructingReal")
    /\ CallReconstruct(Conelist[iter + 1], 199, "L201")
    /\ UNCHANGED <<env, params, cli, CreateNewCalibrationLightcones,
                   CreateNewCalibration, Nrealisations, Conelist, Value, Result,
                   disk, shared, calls>>

\* L201_Dump with the path of lines 172-174 kept: the real lightcone is dumped
\* among the calibration results.
L201_DumpAsResult ==
    /\ pc = "L201"
    /\ Dump(Path(CalibrationResultsDirectory, Val(i), surveyname, "result"),
            Val(ConeResult))
    /\ Goto("L209")
    /\ UNCHANGED <<env, params, cli, script, madeCones, calibrationcones,
                   realcones, calibration, build, stages>>
    /\ UNCHANGED <<shared, log>>

\* Lines 201-203.
L201_Dump ==
    /\ pc = "L201"
    /\ Dump(Path(RealResultsDirectory, Val(i), surveyname, "uncalibratedresult"),
            Val(ConeResult))
    /\ Goto("L209")
    /\ UNCHANGED <<env, params, cli, script, madeCones, calibrationcones,
                   realcones, calibration, build, stages>>
    /\ UNCHANGED <<shared, log>>

\* Line 209, inside the loop: Value=numpy.median(ConeResult[3]).
L209_Median ==
    /\ pc = "L209"
    /\ Value' = {Median2(Val(ConeResult).col3)}
    /\ stages' = Enter("Calibrating")
    /\ Goto("L211")
    /\ UNCHANGED <<env, params, cli, CreateNewCalibrationLightcones,
                   CreateNewCalibration, Nrealisations, Conelist, iter, i,
                   ConeResult, Result, disk>>
    /\ UNCHANGED <<shared, log>>

\* The two weighting schemes WeightParameter1 is compared with (lines 211, 214).
kappa == "kappa"
mu == "mu"

\* The CalibrateResult call of line 212 or 215: the call is made with the
\* median of this lightcone and the flag of its branch, and Result is bound
\* only when it returns.
Calibrate(magnification, line) ==
    LET failure == CalibrateResultFails(calibration, Val(Value), width)
        output == CalibrateResult(calibration, Val(Value), width, magnification)
    IN  /\ calls' = Append(calls, [cone |-> Val(i), value |-> Val(Value),
                                   magnification |-> magnification,
                                   output |-> IF failure # "none" THEN {}
                                              ELSE {output}])
        /\ IF failure # "none"
           THEN /\ Raise(failure, line)
                /\ UNCHANGED Result
           ELSE /\ Result' = {output}
                /\ Goto("L219")

\* L211_Calibrate with the error of CalibrateResult caught and an empty
\* result kept in its place.
L211_CalibrateSwallowed ==
    /\ pc = "L211"
    /\ IF params.WeightParameter1 \in {kappa, mu}
       THEN LET failure == CalibrateResultFails(calibration, Val(Value), width)
                output == IF failure # "none"
                          THEN [rows |-> <<>>, value |-> Val(Value),
                                magnification |-> params.WeightParameter1 = mu]
                          ELSE CalibrateResult(calibration, Val(Value), width,
                                               params.WeightParameter1 = mu)
            IN  /\ Result' = {output}
                /\ calls' = Append(calls, [cone |-> Val(i), value |-> Val(Value),
                                           magnification |->
                                               params.WeightParameter1 = mu,
                                           output |-> {output}])
       ELSE UNCHANGED <<Result, calls>>
    /\ Goto("L219")
    /\ UNCHANGED <<env, params, cli, CreateNewCalibrationLightcones,
                   CreateNewCalibration, Nrealisations, Conelist, iter, i,
                   ConeResult, Value, disk, stages, shared, reconstructs>>

\* L211_Calibrate with the call of line 212 pasted into the second branch
\* unchanged, so that both schemes read the convergence column.
L211_CalibrateOneColumn ==
    /\ pc = "L211"
    /\ IF params.WeightParameter1 = kappa
       THEN Calibrate(FALSE, 212)
       ELSE IF params.WeightParameter1 = mu
            THEN Calibrate(FALSE, 215)
            ELSE /\ UNCHANGED <<Result, calls>>
                 /\ Goto("L219")
    /\ UNCHANGED <<env, params, cli, CreateNewCalibrationLightcones,
                   CreateNewCalibration, Nrealisations, Conelist, iter, i,
                   ConeResult, Value, disk, stages, shared, reconstructs>>

\* L211_Calibrate with the call made only while Result is still unbound: the
\* later lightcones keep the Result of the first.
L211_CalibrateFirstOnly ==
    /\ pc = "L211"
    /\ IF params.WeightParameter1 = kappa /\ ~Bound(Result)
       THEN Calibrate(FALSE, 212)
       ELSE IF params.WeightParameter1 = mu /\ ~Bound(Result)
            THEN Calibrate(TRUE, 215)
            ELSE /\ UNCHANGED <<Result, calls>>
                 /\ Goto("L219")
    /\ UNCHANGED <<env, params, cli, CreateNewCalibrationLightcones,
                   CreateNewCalibration, Nrealisations, Conelist, iter, i,
                   ConeResult, Value, disk, stages, shared, reconstructs>>

\* Lines 211-215: CalibrateResult is called with magnification=False when
\* WeightParameter1 is kappa, with magnification=True when it is mu; for any
\* other value neither branch runs and Result is left as it was.
L211_Calibrate ==
    /\ pc = "L211"
    /\ IF params.WeightParameter1 = kappa
       THEN Calibrate(FALSE, 212)
       ELSE IF params.WeightParameter1 = mu
            THEN Calibrate(TRUE, 215)
            ELSE /\ UNCHANGED <<Result, calls>>
                 /\ Goto("L219")
    /\ UNCHANGED <<env, params, cli, CreateNewCalibrationLightcones,
                   CreateNewCalibration, Nrealisations, Conelist, iter, i,
                   ConeResult, Value, disk, stages, shared, reconstructs>>

\* Lines 219-221: cPickle.dump(Result,OUTPUT,2) reads Result after the file
\* has been opened, so the file is left on disk with no record in it.
L220_NameError ==
    /\ pc = "L219"
    /\ ~Bound(Result)
    /\ opened' = opened \cup {Path(RealResultsDirectory, Val(i), surveyname,
                                    "calibratedresult")}
    /\ Raise("NameError", 220)
    /\ UNCHANGED <<env, params, cli, script, madeCones, calibrationcones,
                   realcones, files, writes, calibration, build, stages>>
    /\ UNCHANGED <<shared, log>>

L220_Dump ==
    /\ pc = "L219"
    /\ Bound(Result)
    /\ Dump(Path(RealResultsDirectory, Val(i), surveyname, "calibratedresult"),
            Val(Result))
    /\ Goto("L197")
    /\ UNCHANGED <<env, params, cli, script, madeCones, calibrationcones,
                   realcones, calibration, build, stages>>
    /\ UNCHANGED <<shared, log>>

\* The end of the script.
L197_Exit ==
    /\ pc = "L197"
    /\ iter = Len(Conelist)
    /\ stages' = Enter("Done")
    /\ Goto("Done")
    /\ UNCHANGED <<env, params, cli, script, disk>>
    /\ UNCHANGED <<shared, log>>

Next ==
    \/ L93_NameError \/ L93_Reconstruct
    \/ L123_Assign
    \/ L128_NameError \/ L129_MakeCones \/ L128_Skip
    \/ L135_Setup \/ L135_Skip
    \/ L155_Assign
    \/ L157_Glob \/ L156_Skip
    \/ L163_NameError \/ L163_WeightingScheme \/ L160_Exit
    \/ L169_Reconstruct \/ L172_Dump \/ L166_Exit
    \/ L179_Build \/ L179_Skip
    \/ L195_Glob \/ L194_Skip
    \/ L199_Reconstruct \/ L201_Dump \/ L209_Median \/ L211_Calibrate
    \/ L220_NameError \/ L220_Dump
    \/ L197_Exit

Spec == Init /\ [][Next]_vars

-----------------------------------------------------------------------------
(* pangloss.ForegroundCatalog: findGalaxies and returnGalaxies *)

\* Angles: the catalogue holds nRA (= -RA) and Dec in radians, the cutoffs are
\* given in degrees.  One radian unit of the model is half a degree.
deg2rad(d) == 2 * d
rad2deg(r) == r \div 2

Mags == {3, 4}
Masses == {1, 2}
Redshifts == {1, 2}
Degrees == {1, 2}

Galaxies ==
    [mag : Mags, Mstar_obs : Masses, z_obs : Redshifts,
     nRA : {-deg2rad(d) : d \in Degrees}, Dec : {deg2rad(d) : d \in Degrees}]

Catalogs == SeqsUpTo(Galaxies, MaxGalaxies) \ {<<>>}

\* The cutoffs a caller gives; ra_cutoff and dec_cutoff may be None ({}).
Cutoffs ==
    [mag_cutoff : {<<0, 5>>, <<0, 4>>},
     mass_cutoff : {<<0, 3>>, <<1, 3>>},
     z_cutoff : {<<0, 3>>, <<0, 2>>},
     ra_cutoff : {{}, {<<3, 0>>}, {<<2, 0>>}},
     dec_cutoff : {{}, {<<0, 3>>}, {<<1, 3>>}}]

RECURSIVE SeqMax(_)
SeqMax(s) ==
    IF Len(s) = 1 THEN s[1]
    ELSE LET m == SeqMax(Tail(s)) IN IF s[1] > m THEN s[1] ELSE m

RECURSIVE SeqMin(_)
SeqMin(s) ==
    IF Len(s) = 1 THEN s[1]
    ELSE LET m == SeqMin(Tail(s)) IN IF s[1] < m THEN s[1] ELSE m

\* __init__: the world coordinate limits of the catalogue, in degrees.
ra_max(rows) == rad2deg(SeqMax([k \in DOMAIN rows |-> -rows[k].nRA]))
ra_min(rows) == rad2deg(SeqMin([k \in DOMAIN rows |-> -rows[k].nRA]))
dec_max(rows) == rad2deg(SeqMax([k \in DOMAIN rows |-> rows[k].Dec]))
dec_min(rows) == rad2deg(SeqMin([k \in DOMAIN rows |-> rows[k].Dec]))

\* The defaults of a None ra_cutoff / dec_cutoff, then the conversion to
\* radians.
RaCutoff(rows, c) ==
    LET deg == IF c.ra_cutoff = {} THEN <<ra_max(rows), ra_min(rows)>>
               ELSE Val(c.ra_cutoff)
    IN  <<deg2rad(deg[1]), deg2rad(deg[2])>>

DecCutoff(rows, c) ==
    LET deg == IF c.dec_cutoff = {} THEN <<dec_min(rows), dec_max(rows)>>
               ELSE Val(c.dec_cutoff)
    IN  <<deg2rad(deg[1]), deg2rad(deg[2])>>

\* The boolean index of lines 103-107 (repeated on 109-113 and 115-119): the
\* redshift is compared with mag_cutoff.
FindMask(rows, c, g) ==
    /\ g.mag > c.mag_cutoff[1] /\ g.mag < c.mag_cutoff[2]
    /\ g.Mstar_obs > c.mass_cutoff[1] /\ g.Mstar_obs < c.mass_cutoff[2]
    /\ g.z_obs > c.mag_cutoff[1] /\ g.z_obs < c.mag_cutoff[2]
    /\ -g.nRA > RaCutoff(rows, c)[2] /\ -g.nRA < RaCutoff(rows, c)[1]
    /\ g.Dec > DecCutoff(rows, c)[1] /\ g.Dec < DecCutoff(rows, c)[2]

\* The boolean index of lines 137-141.
ReturnMask(rows, c, g) ==
    /\ g.mag > c.mag_cutoff[1] /\ g.mag < c.mag_cutoff[2]
    /\ g.Mstar_obs > c.mass_cutoff[1] /\ g.Mstar_obs < c.mass_cutoff[2]
    /\ g.z_obs > c.mag_cutoff[1] /\ g.z_obs < c.mag_cutoff[2]
    /\ -g.nRA > RaCutoff(rows, c)[2] /\ -g.nRA < RaCutoff(rows, c)[1]
    /\ g.Dec > DecCutoff(rows, c)[1] /\ g.Dec < DecCutoff(rows, c)[2]

\* findGalaxies: ra and dec in degrees, and the mass, of the selected rows.
findGalaxies(rows, c) ==
    LET sel == SelectSeq(rows, LAMBDA g : FindMask(rows, c, g))
    IN  [ra |-> [k \in DOMAIN sel |-> -rad2deg(sel[k].nRA)],
         dec |-> [k \in DOMAIN sel |-> rad2deg(sel[k].Dec)],
         mass |-> [k \in DOMAIN sel |-> sel[k].Mstar_obs]]

\* returnGalaxies: the selected rows, all columns.
returnGalaxies(rows, c) == SelectSeq(rows, LAMBDA g : ReturnMask(rows, c, g))

InitCatalog ==
    /\ pc = "L93"
    /\ env = [sys |-> FALSE, CreateNewCalibrationLightones |-> {},
              Nrealisation |-> {}, Reconstruct |-> "Reconstruct(argv)",
              WeightingScheme |-> FALSE]
    /\ params = [DoReconstruction |-> TRUE, WeightParameter1 |-> "kappa",
                 line123 |-> TRUE, line155 |-> TRUE]
    /\ cli = "pending"
    /\ CreateNewCalibrationLightcones = {}
    /\ CreateNewCalibration = {}
    /\ Nrealisations = {}
    /\ Conelist = <<>>
    /\ iter = 0
    /\ i = {}
    /\ ConeResult = {}
    /\ Value = {}
    /\ Result = {}
    /\ madeCones = {}
    /\ calibrationcones = {}
    /\ realcones = {}
    /\ files = <<>>
    /\ writes = <<>>
    /\ opened = {}
    /\ calibration = {}
    /\ build = "none"
    /\ stages = <<"Idle">>
    /\ error = [type |-> "none", line |-> 0]
    /\ data \in Catalogs
    /\ cutoffs = {}
    /\ found = {}
    /\ returned = {}
    /\ SHMR_S2H = {}
    /\ SHMR_H2S = {}
    /\ Grid = {}
    /\ constructions = 0
    /\ reconstructs = <<>>
    /\ calls = <<>>

pipeline == <<pc, env, params, cli, script, disk, stages, error, shared, log>>

\* Both methods only read the catalogue, so one call on each constructed
\* catalogue shows all they do.
FindGalaxiesCall ==
    /\ cutoffs = {}
    /\ \E c \in Cutoffs :
         /\ cutoffs' = {c}
         /\ found' = {findGalaxies(data, c)}
    /\ returned' = {}
    /\ UNCHANGED <<data, pipeline>>

ReturnGalaxiesCall ==
    /\ cutoffs = {}
    /\ \E c \in Cutoffs :
         /\ cutoffs' = {c}
         /\ returned' = {returnGalaxies(data, c)}
    /\ found' = {}
    /\ UNCHANGED <<data, pipeline>>

NextCatalog == FindGalaxiesCall \/ ReturnGalaxiesCall

SpecCatalog == InitCatalog /\ [][NextCatalog]_vars

-----------------------------------------------------------------------------
(* Properties of the pipeline, checked under Spec *)

Rank(stage) ==
    CASE stage = "Idle" -> 0
      [] stage = "GeneratingCalibrationCones" -> 1
      [] stage = "ReconstructingCalibration" -> 2
      [] stage = "BuildingCalibrationSet" -> 3
      [] stage = "ReconstructingReal" -> 4
      [] stage = "Calibrating" -> 5
      [] stage = "Done" -> 6

Visited(stage) == \E k \in DOMAIN stages : stages[k] = stage

StagesInOrder ==
    \A j, k \in DOMAIN stages : j < k => Rank(stages[j]) < Rank(stages[k])

CalibrationRecord(k) ==
    Path(CalibrationResultsDirectory, k, surveyname, "result") \in DOMAIN files

RealRecord(k, ext) ==
    Path(RealResultsDirectory, k, surveyname, ext) \in DOMAIN files

Indices(list) == 0..(Len(list) - 1)

\* C1: the stages of a run are entered in the order GeneratingCalibrationCones,
\* ReconstructingCalibration, BuildingCalibrationSet, ReconstructingReal,
\* Calibrating, Done, none of them re-entered after a later one, and each of
\* the flags CreateNewCalibrationLightcones, CreateNewCalibration and
\* DoReconstruction decides its own stage: the stage is never entered when
\* the flag is false, and a finished run has entered it when the flag is true.
\* (Stated of the runs started with a valid command line.)
C1_StagesInOrderEachFlagOwnStage ==
    cli = "configfile" =>
        /\ StagesInOrder
        /\ CreateNewCalibrationLightcones = {FALSE}
             => ~Visited("GeneratingCalibrationCones")
        /\ CreateNewCalibration = {FALSE} => ~Visited("BuildingCalibrationSet")
        /\ ~params.DoReconstruction => ~Visited("ReconstructingReal")
        /\ pc = "Done" =>
             /\ CreateNewCalibrationLightcones = {TRUE}
                  => Visited("GeneratingCalibrationCones")
             /\ CreateNewCalibration = {TRUE}
                  => Visited("BuildingCalibrationSet")
             /\ params.DoReconstruction => Visited("ReconstructingReal")

\* C2: when a run started with a valid command line is Done, every lightcone
\* that matches realcones has been processed: reconstructed and calibrated
\* (both of its records are on disk) if DoReconstruction, and weighted (some
\* record of it is on disk) if not.
C2_DoneMeansEveryRealConeProcessed ==
    (pc = "Done" /\ cli = "configfile") =>
        \A k \in Indices(Val(realcones)) :
            IF params.DoReconstruction
            THEN /\ RealRecord(k, "uncalibratedresult")
                 /\ RealRecord(k, "calibratedresult")
            ELSE \E p \in DOMAIN files :
                    p.dir = RealResultsDirectory /\ p.cone = k

\* C3: once the build step has run, in either variant, the results directory
\* it reads holds one result record for every calibration lightcone of the
\* list.
C3_BuilderSeesEveryCalibrationResult ==
    (build # "none" /\ cli = "configfile") => \A k \in Indices(Val(calibrationcones)) : CalibrationRecord(k)

NoDuplicates(s) == \A j, k \in DOMAIN s : j # k => s[j] # s[k]

Before(s, a, b) ==
    \E j, k \in DOMAIN s : j < k /\ s[j] = a /\ s[k] = b

\* No path is written twice, and the files on disk are the paths written.
WrittenAtMostOnce ==
    /\ NoDuplicates(writes)
    /\ DOMAIN files = {writes[k] : k \in DOMAIN writes}

\* C4: no record is written twice; once the build step has run every
\* calibration lightcone has its .result record; and when a run started with
\* a valid command line is Done every real lightcone has its
\* .uncalibratedresult record, written before its .calibratedresult record.
C4_OneRecordPerLightcone ==
    /\ WrittenAtMostOnce
    /\ (build # "none" /\ cli = "configfile") =>
         \A k \in Indices(Val(calibrationcones)) : CalibrationRecord(k)
    /\ (pc = "Done" /\ cli = "configfile") =>
         \A k \in Indices(Val(realcones)) :
            Before(writes,
                   Path(RealResultsDirectory, k, surveyname, "uncalibratedresult"),
                   Path(RealResultsDirectory, k, surveyname, "calibratedresult"))

\* C5: after -h/--help, an unrecognised option or a wrong number of
\* arguments, no stage of the pipeline is entered.
C5_InvalidCommandLineStopsPipeline ==
    cli \in {"help", "GetoptError", "usage"} => stages = <<"Idle">>

\* C6: a data error in the reconstruction of lightcone i does not keep the
\* record of a later, sound lightcone j > i of the list from being written:
\* the script does not end on the data error with such a record missing.
C6_DataErrorSkipsOnlyThatLightcone ==
    (/\ cli = "configfile"
     /\ pc = "crashed"
     /\ error.type = "DataError"
     /\ error.line \in {169, 199}) =>
        \A j \in Indices(Conelist) :
            (j > Val(i) /\ Conelist[j + 1].ok) =>
                IF error.line = 169
                THEN CalibrationRecord(j)
                ELSE RealRecord(j, "uncalibratedresult")

\* C7: a calibration that finds no entry with non-negligible kernel weight
\* ends the run with that error, raised by the CalibrateResult call; the
\* script does not go on to the dump of line 219 after such a call, writes
\* no calibratedresult record for that lightcone, and no calibratedresult
\* record on disk is empty.
C7_DegenerateCalibrationSurfaced ==
    /\ \A p \in DOMAIN files :
          p.ext = "calibratedresult" => files[p].rows # <<>>
    /\ (pc = "L219" /\ params.WeightParameter1 \in {"kappa", "mu"})
          => CalibrateResultFails(calibration, Val(Value), width) = "none"
    /\ error.type = "DegenerateCalibration" =>
          /\ pc = "crashed"
          /\ error.line \in {212, 215}
          /\ ~RealRecord(Val(i), "calibratedresult")

\* A run that a degenerate calibration ended: the calibration was built in
\* this run, the lightcone's uncalibrated record is on disk, and its
\* observed value has no match.
C7_Witness ==
    /\ cli = "configfile"
    /\ error.type = "DegenerateCalibration"
    /\ build = "built"
    /\ RealRecord(Val(i), "uncalibratedresult")
    /\ Matches(Val(calibration), Val(Value), width) = <<>>

\* C8: the realisation count a Reconstruct call is given is the configured
\* Nrealisations, in the calibration pass and in the real pass, so every
\* ConeResult has Nrealisations rows; and a count that is not positive
\* leaves no reconstructed result.
C8_ReconstructGetsNrealisations ==
    cli = "configfile" =>
        /\ (pc \in {"L166", "L197"} /\ iter < Len(Conelist))
              => env.Nrealisation = Nrealisations
        /\ pc \in {"L172", "L201"}
              => Len(Val(ConeResult).col3) = Val(Nrealisations)
        /\ (Bound(env.Nrealisation) /\ Val(env.Nrealisation) <= 0)
              => files = <<>>

\* The entries the built distribution should have.
ExpectedSize ==
    IF params.DoReconstruction
    THEN Len(Val(calibrationcones)) * Val(env.Nrealisation)
    ELSE Len(Val(calibrationcones))

\* C9: the distribution the build step produces has as many entries as the
\* calibration ConeResults have rows: the realisation count times the number
\* of calibration lightcones with reconstruction, one per calibration
\* lightcone without; and the build step fails only on an empty list.
C9_DistributionSize ==
    cli = "configfile" =>
        /\ build = "built" => Len(Val(calibration)) = ExpectedSize
        /\ build = "failed" => Len(Val(calibrationcones)) = 0

-----------------------------------------------------------------------------
(* Properties of the galaxy selection, checked under SpecCatalog *)

\* The selection the docstring describes: every quantity inside its own
\* cutoff.
Reference(rows, c, g) ==
    /\ g.mag > c.mag_cutoff[1] /\ g.mag < c.mag_cutoff[2]
    /\ g.Mstar_obs > c.mass_cutoff[1] /\ g.Mstar_obs < c.mass_cutoff[2]
    /\ g.z_obs > c.z_cutoff[1] /\ g.z_obs < c.z_cutoff[2]
    /\ -g.nRA > RaCutoff(rows, c)[2] /\ -g.nRA < RaCutoff(rows, c)[1]
    /\ g.Dec > DecCutoff(rows, c)[1] /\ g.Dec < DecCutoff(rows, c)[2]

ReferenceSelection(rows, c) == SelectSeq(rows, LAMBDA g : Reference(rows, c, g))

Coordinates(sel) ==
    [ra |-> [k \in DOMAIN sel |-> -rad2deg(sel[k].nRA)],
     dec |-> [k \in DOMAIN sel |-> rad2deg(sel[k].Dec)],
     mass |-> [k \in DOMAIN sel |-> sel[k].Mstar_obs]]

\* C10: findGalaxies returns the coordinates and masses, and returnGalaxies
\* the rows, of exactly the galaxies whose magnitude, stellar mass, redshift,
\* RA and Dec lie inside mag_cutoff, mass_cutoff, z_cutoff, ra_cutoff and
\* dec_cutoff; so the two select the same galaxies.
C10_SelectionIsReference ==
    /\ Bound(found) => Val(found) = Coordinates(ReferenceSelection(data, Val(cutoffs)))
    /\ Bound(returned) => Val(returned) = ReferenceSelection(data, Val(cutoffs))
    /\ Bound(cutoffs) =>
          findGalaxies(data, Val(cutoffs))
             = Coordinates(returnGalaxies(data, Val(cutoffs)))

\* C11: in every CalibrateResult call of a run the magnification flag is FALSE
\* exactly when WeightParameter1 is kappa and TRUE exactly when it is mu, no
\* call is made for any other value, and all the calls of a run, one per real
\* lightcone, carry the same flag.
C11_ColumnChosenByWeightParameter1 ==
    /\ \A k \in 1..Len(calls) :
         /\ params.WeightParameter1 \in {kappa, mu}
         /\ calls[k].magnification = FALSE <=> params.WeightParameter1 = kappa
         /\ calls[k].magnification = TRUE <=> params.WeightParameter1 = mu
    /\ \A k, l \in 1..Len(calls) :
         calls[k].magnification = calls[l].magnification

\* Two real lightcones have been calibrated on the magnification column.
C11_Witness ==
    /\ params.WeightParameter1 = mu
    /\ Len(calls) = 2
    /\ calls[1].cone # calls[2].cone
    /\ calls[2].magnification
    /\ pc = "Done"

\* The labels of the real pass, lines 197-221.
RealPass == {"L197", "L201", "L209", "L211", "L219"}

\* The calibration result records as they are on disk.
CalibrationRecords ==
    [p \in ResultRecords(CalibrationResultsDirectory, surveyname) |-> files[p]]

\* C12: the calibration distribution is built at most once per run and only
\* when CreateNewCalibration is requested, and from then on it is only read:
\* no step after the build, and no step of the real pass, changes the
\* calibration result records or the calibration distribution.
C12_CalibrationBuiltOnceThenReadOnly ==
    [][/\ build # "none" =>
            /\ build' = build
            /\ calibration' = calibration
            /\ CalibrationRecords' = CalibrationRecords
       /\ (build' # build \/ calibration' # calibration) =>
            CreateNewCalibration = {TRUE}
       /\ pc \in RealPass =>
            /\ calibration' = calibration
            /\ build' = build
            /\ CalibrationRecords' = CalibrationRecords]_vars

\* A calibration has been built from two results and two real lightcones have
\* been reconstructed, calibrated and persisted against it.
C12_Witness ==
    /\ pc = "Done"
    /\ build = "built"
    /\ Cardinality(DOMAIN CalibrationRecords) = 2
    /\ Len(calls) = 2
    /\ \A k \in {0, 1} : RealRecord(k, "calibratedresult")

\* Every reconstructor call made so far was given the objects of the one
\* construction of lines 145-151, and the names are still bound to them.
SameObjectsInEveryCall ==
    \A k \in 1..Len(reconstructs) :
        /\ constructions = 1
        /\ Grid = {Object("Grid", 1)}
        /\ SHMR_H2S = {Object("SHMR_H2S", 1)}
        /\ SHMR_S2H = {Object("SHMR_S2H", 1)}
        /\ reconstructs[k].Grid = Object("Grid", 1)
        /\ reconstructs[k].SHMR_H2S = Object("SHMR_H2S", 1)
        /\ reconstructs[k].SHMR_S2H = Object("SHMR_S2H", 1)

\* C13 as stated: the redshift grid and the two mass-relation tables are
\* constructed exactly once in every run, before the first reconstructor call,
\* and every reconstructor call of either pass receives those same objects.
C13_SharedObjectsBuiltExactlyOncePerRun ==
    /\ pc = "Done" => constructions = 1
    /\ SameObjectsInEveryCall

\* C13, amended: the redshift grid and the two mass-relation tables are
\* constructed at most once per run: exactly once, before the first
\* reconstructor call, when DoReconstruction is true, and not at all when it
\* is false (such a run makes no reconstructor call); every reconstructor call
\* of either pass receives those same objects, which are never rebuilt and
\* never reassigned.
C13_SharedObjectsBuiltOnceWhenReconstructing ==
    /\ constructions <= 1
    /\ pc = "Done" =>
           constructions = (IF params.DoReconstruction THEN 1 ELSE 0)
    /\ ~params.DoReconstruction =>
           /\ constructions = 0
           /\ reconstructs = <<>>
           /\ Grid = {} /\ SHMR_H2S = {} /\ SHMR_S2H = {}
    /\ SameObjectsInEveryCall

\* A run has reconstructed calibration lightcones and real lightcones, more
\* than one of them in a pass, and has finished.
C13_Witness ==
    /\ pc = "Done"
    /\ Len(reconstructs) >= 3
    /\ \E k \in 1..Len(reconstructs) : reconstructs[k].line = 169
    /\ \E k \in 1..Len(reconstructs) :
         reconstructs[k].line = 199 /\ reconstructs[k].cone = 1

\* The path of a real lightcone's record.
RealPath(k, ext) == Path(RealResultsDirectory, k, surveyname, ext)

\* C14: for every real lightcone and every value of WeightParameter1, the
\* record persisted as the lightcone's calibratedresult is what a
\* CalibrateResult call made for that same lightcone returned, and the value
\* given to that call is the median of column 3 of the lightcone's own
\* ConeResult, the one persisted as its uncalibratedresult; no calibrated
\* record comes from an earlier lightcone's Result or from no call at all.
C14_CalibratedRecordFromOwnCall ==
    \A p \in DOMAIN files :
        p.ext = "calibratedresult" =>
            /\ RealRecord(p.cone, "uncalibratedresult")
            /\ \E k \in 1..Len(calls) :
                 /\ calls[k].cone = p.cone
                 /\ calls[k].output = {files[p]}
                 /\ calls[k].value =
                        Median2(files[RealPath(p.cone, "uncalibratedresult")].col3)
                 /\ files[p].value = calls[k].value

\* Two real lightcones with different medians have both been calibrated and
\* persisted.
C14_Witness ==
    /\ pc = "Done"
    /\ RealRecord(0, "calibratedresult")
    /\ RealRecord(1, "calibratedresult")
    /\ files[RealPath(0, "calibratedresult")].value
           # files[RealPath(1, "calibratedresult")].value

====
